---- MODULE Spec2Model ----
(***************************************************************************)
(* Model of the RAG backend (Backend/main.py and Backend/RAG/*.py):        *)
(* the document registry, the persisted files, the four request handlers   *)
(* (upload, chat, list, delete) and the pure helpers they call             *)
(* (chunk_text, embed_texts, retrieve, generate_answer).                   *)
(*                                                                         *)
(* Strings that the code inspects (strip, lower, substring, suffix) are    *)
(* tuples of one-character strings; strings that are only compared or      *)
(* returned are TLA+ strings.  A text is its token sequence (tiktoken's    *)
(* encode/decode is an external library), a chunk is a slice of tokens.    *)
(* Every handler is `async def` without an await, so it runs to            *)
(* completion on the event loop: one handler is one atomic action.         *)
(***************************************************************************)
EXTENDS Integers, Sequences, FiniteSets, TLC

\* ------------------------------------------------------------------ bounds
\* Number of document ids uuid4 hands out in one run.
MaxDocs == 2
\* Longest uploaded text, in strides of the chunker past its first token.
MaxStrides == 1
\* Largest top_k a chat request sends explicitly.
MaxTopK == 1
\* SpecChunk: longest token sequence, largest window and largest overlap.
CkMaxLen == 6
CkMaxWindow == 3
CkMaxOverlap == 4
\* SpecChunk: loop iterations followed when the stride is not positive.
CkMaxIter == 8
\* SpecRetrieve: most chunks of an index and largest top_k.
RtMaxRows == 3
RtMaxK == 4
\* SpecEmbed: threads calling embed_texts, and calls each of them makes.
EmCallers == 2
EmMaxCalls == 2

\* ------------------------------------------------------- program constants
max_chunk_size == 500
overlap_size == 80
default_top_k == 5
NO_MATCH == -1

\* ------------------------------------------------------------ Python bits
Min(a, b) == IF a < b THEN a ELSE b
Max(a, b) == IF a > b THEN a ELSE b

\* s[a:b] on a Python sequence (0-based, negative bounds count from the end).
PyBound(n, i) == IF i < 0 THEN Max(n + i, 0) ELSE Min(i, n)
PySlice(s, a, b) == SubSeq(s, PyBound(Len(s), a) + 1, PyBound(Len(s), b))

\* s[i] on a Python sequence (0-based, a negative index counts from the end).
PyIndex(s, i) == IF i < 0 THEN s[Len(s) + i + 1] ELSE s[i + 1]

IsSpace(c) == c \in {" ", "\n"}

RECURSIVE LStrip(_)
LStrip(s) == IF s # <<>> /\ IsSpace(Head(s)) THEN LStrip(Tail(s)) ELSE s

RECURSIVE RStrip(_)
RStrip(s) ==
    IF s # <<>> /\ IsSpace(s[Len(s)]) THEN RStrip(SubSeq(s, 1, Len(s) - 1)) ELSE s

\* str.strip()
Strip(s) == RStrip(LStrip(s))

LowerChar(c) ==
    CASE c = "A" -> "a" [] c = "D" -> "d" [] c = "E" -> "e" [] c = "F" -> "f"
      [] c = "I" -> "i" [] c = "L" -> "l" [] c = "M" -> "m" [] c = "O" -> "o"
      [] c = "P" -> "p" [] c = "R" -> "r" [] c = "T" -> "t"
      [] OTHER -> c

\* str.lower()
Lower(s) == [i \in 1..Len(s) |-> LowerChar(s[i])]

\* `sub in s` on strings
Contains(s, sub) ==
    \E i \in 0..(Len(s) - Len(sub)) : SubSeq(s, i + 1, i + Len(sub)) = sub

\* s.endswith(suffix)
EndsWith(s, suffix) ==
    /\ Len(s) >= Len(suffix)
    /\ SubSeq(s, Len(s) - Len(suffix) + 1, Len(s)) = suffix

\* ---------------------------------------------------------------- chunking
\* One pass of the body of the while loop of chunk_text: the window
\* tokens[start:end] is appended and start advances by the stride.
ChunkWindow(tokens, max, start) ==
    PySlice(tokens, start, Min(start + max, Len(tokens)))

ChunkAdvance(max, over, start) == start + max - over

RECURSIVE ChunkLoop(_, _, _, _, _)
ChunkLoop(tokens, max, over, start, chunks) ==
    IF start < Len(tokens)
    THEN ChunkLoop(tokens, max, over, ChunkAdvance(max, over, start),
                   Append(chunks, ChunkWindow(tokens, max, start)))
    ELSE chunks

\* chunk_text(text, max_chunk_size, overlap_size); only used with a
\* positive stride here (the defaults), where the loop terminates.
chunk_text(tokens, max, over) == ChunkLoop(tokens, max, over, 0, <<>>)

\* --------------------------------------------------------------- embedding
\* The embedding models are external; a model is a deterministic map from a
\* text to a unit vector.  Vectors are the four axis vectors of the plane, so
\* every row has Euclidean norm 1 and the inner product is the cosine.
Axis == << <<1, 0>>, <<0, 1>>, <<-1, 0>>, <<0, -1>> >>

CharCode(c) == CASE c = "a" -> 1 [] c = "b" -> 2 [] OTHER -> 0

TextHash(s) ==
    IF s = <<>> THEN 0 ELSE Len(s) + (Len(s) \div 2) + CharCode(s[1])

\* model.encode(text) followed by faiss.normalize_L2
Encode(model_name, s) == Axis[((TextHash(s) + CharCode(model_name[1])) % 4) + 1]

\* get_embedding_model: the cache after the call (the model is loaded on a miss).
get_embedding_model(cache, model_name) == cache \cup {model_name}

\* embed_texts(texts, model_name): `load_fails` is the outcome of
\* SentenceTransformer(model_name) when the model is not cached yet.
embed_texts(cache, texts, model_name, load_fails) ==
    IF model_name = <<>>
    THEN [err |-> "ValueError", vectors |-> <<>>, cache |-> cache]
    ELSE IF model_name \notin cache /\ load_fails
    THEN [err |-> "LoadError", vectors |-> <<>>, cache |-> cache]
    ELSE [err |-> "",
          vectors |-> [i \in 1..Len(texts) |-> Encode(model_name, texts[i])],
          cache |-> get_embedding_model(cache, model_name)]

\* ------------------------------------------------------------ vector index
Dot(u, v) == u[1] * v[1] + u[2] * v[2]

\* faiss.IndexFlatIP(d) followed by index.add(vectors)
IndexFlatIP(vectors) == [d |-> 2, xb |-> vectors]

\* The best of the rows in `left`: highest inner product, lowest row on a tie.
BestRow(xb, q, left) ==
    CHOOSE r \in left :
        \A o \in left :
            \/ Dot(xb[r + 1], q) > Dot(xb[o + 1], q)
            \/ (Dot(xb[r + 1], q) = Dot(xb[o + 1], q) /\ r <= o)

RECURSIVE SearchFrom(_, _, _, _)
SearchFrom(xb, q, k, left) ==
    IF k = 0 THEN <<>>
    ELSE IF left = {} THEN <<NO_MATCH>> \o SearchFrom(xb, q, k - 1, left)
    ELSE LET r == BestRow(xb, q, left)
         IN  <<r>> \o SearchFrom(xb, q, k - 1, left \ {r})

\* index.search(q, k): the labels of the k nearest rows (0-based), by
\* non-increasing inner product, padded with -1 when the index has fewer rows.
IndexSearch(index, q, k) ==
    SearchFrom(index.xb, q, k, {r \in 0..(Len(index.xb) - 1) : TRUE})

\* Faulty variant: the sentinel rows are not filtered out (chunks[-1] is the last chunk).
RECURSIVE MapLabelsNoFilter(_, _)
MapLabelsNoFilter(chunks, labels) ==
    IF labels = <<>> THEN <<>>
    ELSE IF chunks = <<>> THEN <<>>
    ELSE <<PyIndex(chunks, Head(labels))>> \o MapLabelsNoFilter(chunks, Tail(labels))

\* [chunks[i] for i in labels if i != -1]
RECURSIVE MapLabels(_, _)
MapLabels(chunks, labels) ==
    IF labels = <<>> THEN <<>>
    ELSE IF Head(labels) # NO_MATCH
    THEN <<PyIndex(chunks, Head(labels))>> \o MapLabels(chunks, Tail(labels))
    ELSE MapLabels(chunks, Tail(labels))

\* retrieve(query, index, chunks, top_k, embedding_model)
retrieve(cache, query, index, chunks, top_k, embedding_model, load_fails) ==
    IF embedding_model = <<>>
    THEN [err |-> "ValueError", chunks |-> <<>>, labels |-> <<>>, cache |-> cache]
    ELSE LET q == embed_texts(cache, <<query>>, embedding_model, load_fails)
         IN  IF q.err # ""
             THEN [err |-> q.err, chunks |-> <<>>, labels |-> <<>>, cache |-> cache]
             ELSE IF top_k <= 0
             THEN [err |-> "FaissError", chunks |-> <<>>, labels |-> <<>>,
                   cache |-> q.cache]
             ELSE LET labels == IndexSearch(index, q.vectors[1], top_k)
                  IN  IF \E j \in 1..Len(labels) : labels[j] >= Len(chunks)
                      THEN [err |-> "IndexError", chunks |-> <<>>,
                            labels |-> labels, cache |-> q.cache]
                      ELSE [err |-> "", chunks |-> MapLabels(chunks, labels),
                            labels |-> labels, cache |-> q.cache]

\* --------------------------------------------------------- answer generation
RATE_LIMIT == <<"r", "a", "t", "e", " ", "l", "i", "m", "i", "t">>
MODEL == <<"m", "o", "d", "e", "l">>

\* Faulty variant: the failure text is tested for "model" first.
ClassifyFailureModelFirst(e) ==
    LET error_msg == Lower(e)
    IN  IF Contains(error_msg, MODEL)
        THEN [kind |-> "Exception", msg |-> "Model error: {e}", arg |-> e]
        ELSE IF Contains(error_msg, RATE_LIMIT)
        THEN [kind |-> "Exception", msg |-> "Rate limit exceeded. Try again later.",
              arg |-> <<>>]
        ELSE [kind |-> "Exception", msg |-> "Failed to generate answer: {e}",
              arg |-> e]

\* The except branch of generate_answer: the failure text decides the class.
ClassifyFailure(e) ==
    LET error_msg == Lower(e)
    IN  IF Contains(error_msg, RATE_LIMIT)
        THEN [kind |-> "Exception", msg |-> "Rate limit exceeded. Try again later.",
              arg |-> <<>>]
        ELSE IF Contains(error_msg, MODEL)
        THEN [kind |-> "Exception", msg |-> "Model error: {e}", arg |-> e]
        ELSE [kind |-> "Exception", msg |-> "Failed to generate answer: {e}",
              arg |-> e]

\* Faulty variant: an empty API key is let through to the remote call.
GenerateCheckNoKey(provider, llm_model, api_key) ==
    IF provider \notin {"huggingface", "openai"}
    THEN [kind |-> "ValueError", msg |-> "Provider must be 'huggingface' or 'openai'",
          arg |-> <<>>]
    ELSE IF llm_model = <<>>
    THEN [kind |-> "ValueError", msg |-> "LLM model name is required", arg |-> <<>>]
    ELSE [kind |-> "pass", msg |-> "", arg |-> <<>>]

\* The three checks at the top of generate_answer, before the try block:
\* the ValueError raised, or "pass".
GenerateCheck(provider, llm_model, api_key) ==
    IF provider \notin {"huggingface", "openai"}
    THEN [kind |-> "ValueError", msg |-> "Provider must be 'huggingface' or 'openai'",
          arg |-> <<>>]
    ELSE IF llm_model = <<>>
    THEN [kind |-> "ValueError", msg |-> "LLM model name is required", arg |-> <<>>]
    ELSE IF api_key = <<>>
    THEN [kind |-> "ValueError", msg |-> "API key is required", arg |-> <<>>]
    ELSE [kind |-> "pass", msg |-> "", arg |-> <<>>]

\* The try block of generate_answer; `remote` is the outcome of the
\* provider's completion call: its text, or the failure text.
GenerateTry(remote) ==
    IF remote.fails
    THEN ClassifyFailure(remote.text)
    ELSE [kind |-> "ok", msg |-> "", arg |-> Strip(remote.text)]

\* generate_answer(query, ctx, provider, llm_model, api_key)
generate_answer(query, ctx, provider, llm_model, api_key, remote) ==
    LET checked == GenerateCheck(provider, llm_model, api_key)
    IN  IF checked.kind # "pass" THEN checked ELSE GenerateTry(remote)

\* ==================================================================== state
VARIABLES
    documents_store,    \* main.py: document id -> in-memory document record
    fs,                 \* the files under uploads/ and indexes/: path -> content
    embedding_models,   \* embed_store.py: the names of the cached models
    next_uuid,          \* the next fresh document id uuid4 returns
    resp,               \* the response of the last request
    h_uploaded,         \* history: id -> the embedding_model of its upload
    h_deleted,          \* history: ids whose delete reported success
    h_request,          \* history: the chat request that resp answers
    ck,                 \* one call of chunk_text, stepped (SpecChunk)
    rt,                 \* one call of retrieve (SpecRetrieve)
    gn,                 \* one call of generate_answer, stepped (SpecGenerate)
    em                  \* callers of embed_texts, stepped (SpecEmbed)

vars == <<documents_store, fs, embedding_models, next_uuid, resp,
          h_uploaded, h_deleted, h_request, ck, rt, gn, em>>

\* The calls followed on their own; the request handlers leave them alone.
calls == <<ck, rt, gn, em>>
\* The state of the service.
service == <<documents_store, fs, embedding_models, next_uuid, resp,
             h_uploaded, h_deleted, h_request>>

\* Document ids: 1..MaxDocs are handed out by uuid4, LegacyId is a document
\* found in the index directory at start-up.
LegacyId == 0
FirstId == LegacyId + 1
UploadIds == FirstId..MaxDocs
DocIds == {LegacyId} \cup UploadIds

\* os.path.join(UPLOAD_DIR, f"{id}.pdf") and the two paths under INDEX_DIR
file_path(d) == <<"uploads", d, ".pdf">>
index_path(d) == <<"indexes", d, ".index">>
meta_path(d) == <<"indexes", d, "_meta.json">>
Paths == UNION {{file_path(d), index_path(d), meta_path(d)} : d \in DocIds}

Absent == [kind |-> "absent"]
Corrupt == [kind |-> "corrupt"]
PdfFile == [kind |-> "pdf"]
IndexFile(index) == [kind |-> "index", index |-> index]
JsonFile(json) == [kind |-> "json", json |-> json]

\* os.path.exists(path)
Exists(files, path) == files[path].kind # "absent"

\* os.remove(path)
Remove(files, path) == [files EXCEPT ![path] = Absent]

\* `if os.path.exists(path): os.remove(path)`
RemoveIfExists(files, path) ==
    IF Exists(files, path) THEN Remove(files, path) ELSE files

EmptyStore == [d \in {} |-> Absent]

\* The response of a handler: HTTP status and detail, and the body's fields.
Response(op, id, status, detail) ==
    [op |-> op, id |-> id, status |-> status, detail |-> detail,
     cause |-> "", arg |-> <<>>, sources |-> <<>>, model |-> <<>>,
     n |-> 0, docs |-> {}]

\* The id field of a response to a request that names no document.
NoId == LegacyId - 1

NoResponse == Response("none", NoId, 0, "")

\* The request history when the last request was not a chat.
NoRequest == [document_id |-> NoId, query |-> <<>>, top_k |-> 0,
              provider |-> "", llm_model |-> <<>>, api_key |-> <<>>]

CkIdle == [tokens |-> <<>>, max |-> 1, over |-> 0, start |-> 0,
           chunks |-> <<>>, pc |-> "idle"]

RtIdle == [query |-> <<>>, chunks |-> <<>>, top_k |-> 1, embedding_model |-> <<>>,
           index |-> [d |-> 2, xb |-> <<>>], labels |-> <<>>, out |-> <<>>,
           err |-> "", pc |-> "idle"]

NoOutcome == [kind |-> "", msg |-> "", arg |-> <<>>]

GnIdle == [provider |-> "", llm_model |-> <<>>, api_key |-> <<>>,
           remote |-> [fails |-> FALSE, text |-> <<>>], called |-> FALSE,
           out |-> NoOutcome, pc |-> "idle"]

\* The model names the threads of SpecEmbed pass to embed_texts.
EmModels == { <<>>, <<"a">>, <<"b">> }
EmThreads == 1..EmCallers

\* No thread is inside embed_texts and _embedding_models is empty.  A loaded
\* model is the number of its load (instances are told apart by it), 0 is
\* none.  `overlap` is history: two threads were inside at the same time.
EmIdle == [cache |-> [m \in EmModels |-> 0],
           loads |-> [m \in EmModels |-> 0],
           pc |-> [c \in EmThreads |-> "idle"],
           arg |-> [c \in EmThreads |-> <<>>],
           model |-> [c \in EmThreads |-> 0],
           got |-> [c \in EmThreads |-> 0],
           err |-> [c \in EmThreads |-> ""],
           calls |-> [c \in EmThreads |-> 0],
           overlap |-> FALSE]

\* ------------------------------------------------------------------- inputs
\* The text extract_text_from_pdf returns for an upload: n tokens.
Text(n) == [i \in 1..n |-> IF i % 2 = 1 THEN "a" ELSE "b"]
TextLens == {0} \cup {i * (max_chunk_size - overlap_size) + 1 : i \in 1..MaxStrides}
Texts == {Text(n) : n \in TextLens}

Filenames == { <<"A", ".", "P", "D", "F">>, <<"a", ".", "t", "x", "t">> }

ModelArgs == { <<>>, <<" ">>, <<"a">>, <<" ", "b", " ">> }

\* Where an upload is made to fail by its environment.
UploadFaults == {"none", "save_open", "save_copy", "extract", "embed", "build",
                 "write_index", "write_index_partial", "open_meta", "dump_meta"}

\* What a previous run without the embedding_model field left on disk.
LegacyChunks == chunk_text(Text(1), max_chunk_size, overlap_size)
LegacyIndex == IndexFlatIP([i \in 1..Len(LegacyChunks) |-> Encode(<<"a">>, LegacyChunks[i])])
LegacyMetas == { [chunks |-> LegacyChunks],
                 [chunks |-> LegacyChunks, embedding_model |-> <<>>] }

NoFiles == [p \in Paths |-> Absent]

Init ==
    /\ documents_store = EmptyStore
    /\ fs \in {NoFiles} \cup
              {[NoFiles EXCEPT ![index_path(LegacyId)] = IndexFile(LegacyIndex),
                               ![meta_path(LegacyId)] = JsonFile(m)] :
                   m \in LegacyMetas}
    /\ embedding_models = {}
    /\ next_uuid = FirstId
    /\ resp = NoResponse
    /\ h_uploaded = EmptyStore
    /\ h_deleted = {}
    /\ h_request = NoRequest
    /\ ck = CkIdle
    /\ rt = RtIdle
    /\ gn = GnIdle
    /\ em = EmIdle

\* =================================================================== upload
PDF_SUFFIX == <<".", "p", "d", "f">>

\* The record upload_pdf registers (main.py, documents_store[document_id] = ...).
UploadEntry(filename, d, chunks, index, embed_model) ==
    [filename |-> filename, file_path |-> file_path(d),
     index_path |-> index_path(d), meta_path |-> meta_path(d),
     chunks |-> chunks, index |-> index, embedding_model |-> embed_model]

\* Faulty variant: the metadata is written without the embedding model.
UploadMetaNoModel(chunks, embed_model) == [chunks |-> chunks]

\* json.dump({"chunks": chunks, "embedding_model": embed_model}, f)
UploadMeta(chunks, embed_model) ==
    [chunks |-> chunks, embedding_model |-> embed_model]

\* The handler of `except Exception`: the saved upload is removed.
UploadCleanup(files, d) == RemoveIfExists(files, file_path(d))

\* The handler of `except HTTPException: raise`: nothing is removed.
UploadReraise(files, d) == files

\* The second try block of upload_pdf, entered with the upload saved:
\* extract, chunk, embed, build the index, persist, register.
UploadProcess(files, store, cache, d, filename, embed_model, text, fault) ==
    LET Raise400(detail) ==
            [fs |-> UploadReraise(files, d), store |-> store, cache |-> cache,
             resp |-> Response("upload", d, 400, detail)]
        Raise500(f, c) ==
            [fs |-> UploadCleanup(f, d), store |-> store, cache |-> c,
             resp |-> Response("upload", d, 500, "Failed to process PDF: {e}")]
    IN  IF fault = "extract" THEN Raise500(files, cache)
        ELSE IF Strip(text) = <<>>
        THEN Raise400("Could not extract text from PDF")
        ELSE
        LET chunks == chunk_text(text, max_chunk_size, overlap_size)
        IN  IF chunks = <<>>
            THEN Raise400("Could not create chunks from PDF")
            ELSE
            LET emb == embed_texts(cache, chunks, embed_model, fault = "embed")
                index == IndexFlatIP(emb.vectors)
                f1 == [files EXCEPT ![index_path(d)] = IndexFile(index)]
                f2 == [f1 EXCEPT ![meta_path(d)] =
                                     JsonFile(UploadMeta(chunks, embed_model))]
            IN  IF emb.err # "" THEN Raise500(files, emb.cache)
                ELSE IF fault = "build" THEN Raise500(files, emb.cache)
                ELSE IF fault = "write_index" THEN Raise500(files, emb.cache)
                ELSE IF fault = "write_index_partial"
                THEN Raise500([files EXCEPT ![index_path(d)] = Corrupt], emb.cache)
                ELSE IF fault = "open_meta" THEN Raise500(f1, emb.cache)
                ELSE IF fault = "dump_meta"
                THEN Raise500([f1 EXCEPT ![meta_path(d)] = Corrupt], emb.cache)
                ELSE [fs |-> f2,
                      store |-> (d :> UploadEntry(filename, d, chunks, index,
                                                  embed_model)) @@ store,
                      cache |-> emb.cache,
                      resp |-> [Response("upload", d, 200,
                                  "Document uploaded and indexed successfully")
                                EXCEPT !.model = embed_model,
                                       !.n = Len(chunks)]]

\* upload_pdf, from the first try block (saving the incoming file) on.
UploadSave(files, store, cache, d, filename, embed_model, text, fault) ==
    IF fault = "save_open"
    THEN [fs |-> files, store |-> store, cache |-> cache,
          resp |-> Response("upload", d, 500, "Failed to save file: {e}")]
    ELSE IF fault = "save_copy"
    THEN [fs |-> [files EXCEPT ![file_path(d)] = PdfFile], store |-> store,
          cache |-> cache,
          resp |-> Response("upload", d, 500, "Failed to save file: {e}")]
    ELSE UploadProcess([files EXCEPT ![file_path(d)] = PdfFile], store, cache,
                       d, filename, embed_model, text, fault)

\* POST /upload
Upload ==
    \E filename \in Filenames, embedding_model \in ModelArgs :
        IF ~EndsWith(Lower(filename), PDF_SUFFIX)
        THEN /\ resp' = Response("upload", NoId, 400, "Only PDF files are allowed")
             /\ h_request' = NoRequest
             /\ UNCHANGED <<documents_store, fs, embedding_models, next_uuid,
                            h_uploaded, h_deleted, calls>>
        ELSE IF embedding_model = <<>> \/ Strip(embedding_model) = <<>>
        THEN /\ resp' = Response("upload", NoId, 400, "Embedding model is required")
             /\ h_request' = NoRequest
             /\ UNCHANGED <<documents_store, fs, embedding_models, next_uuid,
                            h_uploaded, h_deleted, calls>>
        ELSE /\ next_uuid <= MaxDocs
             /\ \E text \in Texts, fault \in UploadFaults :
                  LET out == UploadSave(fs, documents_store, embedding_models,
                                        next_uuid, filename,
                                        Strip(embedding_model), text, fault)
                  IN  /\ fs' = out.fs
                      /\ documents_store' = out.store
                      /\ embedding_models' = out.cache
                      /\ resp' = out.resp
                      /\ next_uuid' = next_uuid + 1
                      /\ h_uploaded' =
                           IF out.resp.status = 200
                           THEN (next_uuid :> embedding_model) @@ h_uploaded
                           ELSE h_uploaded
                      /\ h_request' = NoRequest
                      /\ UNCHANGED <<h_deleted, calls>>

\* ===================================================================== chat
\* A well-formed chat request on document d.
ChatRequest(d, query, top_k) ==
    [document_id |-> d, query |-> query, top_k |-> top_k,
     provider |-> "openai", llm_model |-> <<"g">>, api_key |-> <<"k">>]

Queries == { <<" ", "b">> }
TopKs == (0..MaxTopK) \cup {default_top_k}

ValidRequests ==
    {ChatRequest(d, q, k) : d \in DocIds, q \in Queries, k \in TopKs}

\* Requests the validation of chat turns down, and one for the other provider
\* (validation comes before the lookup, so one document id is enough).
OddRequests ==
    UNION {{ [ChatRequest(d, <<"b">>, 1) EXCEPT !.query = <<" ">>],
             [ChatRequest(d, <<"b">>, 1) EXCEPT !.provider = ""],
             [ChatRequest(d, <<"b">>, 1) EXCEPT !.provider = "azure"],
             [ChatRequest(d, <<"b">>, 1) EXCEPT !.provider = "huggingface"],
             [ChatRequest(d, <<"b">>, 1) EXCEPT !.llm_model = <<>>],
             [ChatRequest(d, <<"b">>, 1) EXCEPT !.llm_model = <<" ">>],
             [ChatRequest(d, <<"b">>, 1) EXCEPT !.api_key = <<>>],
             [ChatRequest(d, <<"b">>, 1) EXCEPT !.api_key = <<" ">>] } :
           d \in {FirstId}}

ChatRequests == ValidRequests \cup OddRequests

\* What the provider's completion call does: it returns a text or fails.
RemoteOutcomes ==
    { [fails |-> FALSE, text |-> <<" ", "o", "k", " ">>],
      [fails |-> TRUE, text |-> <<"M", "o", "d", "e", "l">>],
      [fails |-> TRUE, text |-> <<"t", "i", "m", "e", "o", "u", "t">>] }

\* The four checks at the top of chat: "" when the request passes.
ChatValidate(request) ==
    IF Strip(request.query) = <<>> THEN "Query cannot be empty"
    ELSE IF request.provider = "" \/ request.provider \notin {"huggingface", "openai"}
    THEN "Provider must be 'huggingface' or 'openai'"
    ELSE IF request.llm_model = <<>> \/ Strip(request.llm_model) = <<>>
    THEN "LLM model is required"
    ELSE IF request.api_key = <<>> \/ Strip(request.api_key) = <<>>
    THEN "API key is required"
    ELSE ""

\* Faulty variant: only a missing key counts, an empty value passes.
FalsyMissingOnly(json, key) == key \notin DOMAIN json

\* `not metadata.get(key)`: the key is missing or its value is empty.
Falsy(json, key) == key \notin DOMAIN json \/ json[key] = <<>>

\* Faulty variant: the first chunk is lost on the way from the metadata.
MetaChunksTail(json) ==
    IF "chunks" \in DOMAIN json /\ json.chunks # <<>> THEN Tail(json.chunks) ELSE <<>>

\* metadata.get("chunks", [])
MetaChunks(json) == IF "chunks" \in DOMAIN json THEN json.chunks ELSE <<>>

\* Faulty variant: a reload takes a default model instead of the recorded one.
ReloadEntryDefaultModel(index, metadata) ==
    [chunks |-> IF "chunks" \in DOMAIN metadata THEN metadata.chunks ELSE <<>>,
     index |-> index, embedding_model |-> <<"a">>]

\* The record chat registers on a reload.
ReloadEntry(index, metadata) ==
    [chunks |-> MetaChunks(metadata), index |-> index,
     embedding_model |-> metadata.embedding_model]

\* The reload branch of chat (document_id not in documents_store):
\* the status and detail of the failure ("" on success) and the store after it.
ChatReload(files, store, d) ==
    LET Fail(status, detail) == [status |-> status, detail |-> detail, store |-> store]
    IN  IF ~Exists(files, index_path(d)) \/ ~Exists(files, meta_path(d))
        THEN Fail(404, "Document not found")
        ELSE IF files[index_path(d)].kind # "index"
        THEN Fail(500, "Failed to load document: {e}")
        ELSE IF files[meta_path(d)].kind # "json"
        THEN Fail(500, "Failed to load document: {e}")
        ELSE IF Falsy(files[meta_path(d)].json, "embedding_model")
        THEN Fail(500, "Document missing embedding_model. Re-upload required.")
        ELSE [status |-> 200, detail |-> "",
              store |-> (d :> ReloadEntry(files[index_path(d)].index,
                                          files[meta_path(d)].json)) @@ store]

\* Faulty variant: the document is reloaded also when it is resident.
ChatLookupAlways(files, store, d) == ChatReload(files, store, d)

\* The lookup of chat: the registry entry, reloaded when it is not resident.
ChatLookup(files, store, d) ==
    IF d \notin DOMAIN store
    THEN ChatReload(files, store, d)
    ELSE [status |-> 200, detail |-> "", store |-> store]

\* The second try block of chat: retrieve, then generate.
ChatAnswer(request, doc, r, g) ==
    IF r.err # ""
    THEN [Response("chat", request.document_id, 500,
                   "Failed to generate response: {e}")
          EXCEPT !.cause = r.err, !.model = doc.embedding_model]
    ELSE IF r.chunks = <<>>
    THEN [Response("chat", request.document_id, 404, "No relevant content found")
          EXCEPT !.model = doc.embedding_model]
    ELSE IF g.kind # "ok"
    THEN [Response("chat", request.document_id, 500,
                   "Failed to generate response: {e}")
          EXCEPT !.cause = g.msg, !.arg = g.arg, !.sources = r.chunks,
                 !.model = doc.embedding_model, !.n = Len(r.chunks)]
    ELSE [Response("chat", request.document_id, 200, "")
          EXCEPT !.arg = g.arg, !.sources = r.chunks,
                 !.model = doc.embedding_model, !.n = Len(r.chunks)]

\* What loading the model can do: nothing is loaded when it is cached.
LoadOutcomes(cache, model_name) ==
    IF model_name \in cache THEN {FALSE} ELSE BOOLEAN

\* POST /chat
Chat ==
    \E request \in ChatRequests :
        LET invalid == ChatValidate(request)
            d == request.document_id
            found == ChatLookup(fs, documents_store, d)
        IN  IF invalid # ""
            THEN /\ resp' = Response("chat", d, 400, invalid)
                 /\ h_request' = request
                 /\ UNCHANGED <<documents_store, fs, embedding_models, next_uuid,
                                h_uploaded, h_deleted, calls>>
            ELSE IF found.status # 200
            THEN /\ resp' = Response("chat", d, found.status, found.detail)
                 /\ documents_store' = found.store
                 /\ h_request' = request
                 /\ UNCHANGED <<fs, embedding_models, next_uuid,
                                h_uploaded, h_deleted, calls>>
            ELSE \E load_fails \in LoadOutcomes(embedding_models,
                                                 found.store[d].embedding_model),
                    remote \in RemoteOutcomes :
                   LET doc == found.store[d]
                       r == retrieve(embedding_models, request.query, doc.index,
                                     doc.chunks, request.top_k,
                                     doc.embedding_model, load_fails)
                       g == generate_answer(request.query, r.chunks,
                                            request.provider, request.llm_model,
                                            request.api_key, remote)
                   IN  /\ resp' = ChatAnswer(request, doc, r, g)
                       /\ documents_store' = found.store
                       /\ embedding_models' = r.cache
                       /\ h_request' = request
                       /\ UNCHANGED <<fs, next_uuid, h_uploaded, h_deleted, calls>>

\* ===================================================================== list
\* data.get(key, default) on a registry record
Get(doc, key, default) == IF key \in DOMAIN doc THEN doc[key] ELSE default

UNKNOWN == <<"U", "n", "k", "n", "o", "w", "n">>

\* Faulty variant: entries registered by a reload are left out of the list.
ListDocumentsUploadedOnly(store) ==
    { [document_id |-> d,
       filename |-> store[d].filename,
       num_chunks |-> Len(store[d].chunks),
       embedding_model |-> store[d].embedding_model] :
      d \in {x \in DOMAIN store : "filename" \in DOMAIN store[x]} }

\* GET /documents: one record per registry entry.
ListDocuments(store) ==
    { [document_id |-> d,
       filename |-> Get(store[d], "filename", UNKNOWN),
       num_chunks |-> Len(Get(store[d], "chunks", <<>>)),
       embedding_model |-> Get(store[d], "embedding_model", UNKNOWN)] :
      d \in DOMAIN store }

List ==
    /\ resp' = [Response("list", NoId, 200, "")
                EXCEPT !.docs = ListDocuments(documents_store),
                       !.n = Cardinality(DOMAIN documents_store)]
    /\ h_request' = NoRequest
    /\ UNCHANGED <<documents_store, fs, embedding_models, next_uuid,
                   h_uploaded, h_deleted, calls>>

\* =================================================================== delete
\* One pass of the loop of delete_document: the file the record names under
\* `key` is removed when the record has the key and the file exists.
DeleteKey(files, doc, key) ==
    IF key \in DOMAIN doc /\ Exists(files, doc[key])
    THEN Remove(files, doc[key])
    ELSE files

\* for key in ["file_path", "index_path", "meta_path"]: ...
DeleteFiles(files, doc) ==
    DeleteKey(DeleteKey(DeleteKey(files, doc, "file_path"), doc, "index_path"),
              doc, "meta_path")

\* del documents_store[document_id]
StoreWithout(store, d) == [x \in (DOMAIN store) \ {d} |-> store[x]]

\* Faulty variant: a delete of an id that is not resident removes the files
\* at the paths of that id and reports success.
DeleteDocumentFromDisk(files, store, d) ==
    IF d \notin DOMAIN store
    THEN [status |-> 200, detail |-> "Document deleted",
          fs |-> RemoveIfExists(RemoveIfExists(RemoveIfExists(files, file_path(d)),
                                               index_path(d)), meta_path(d)),
          store |-> store]
    ELSE [status |-> 200, detail |-> "Document deleted",
          fs |-> DeleteFiles(files, store[d]), store |-> StoreWithout(store, d)]

\* delete_document(document_id): the response, and the files and the
\* registry after it.
DeleteDocument(files, store, d) ==
    IF d \notin DOMAIN store
    THEN [status |-> 404, detail |-> "Document not found",
          fs |-> files, store |-> store]
    ELSE [status |-> 200, detail |-> "Document deleted",
          fs |-> DeleteFiles(files, store[d]), store |-> StoreWithout(store, d)]

\* DELETE /documents/{document_id}
Delete ==
    \E d \in DocIds :
        LET out == DeleteDocument(fs, documents_store, d)
        IN  /\ resp' = Response("delete", d, out.status, out.detail)
            /\ fs' = out.fs
            /\ documents_store' = out.store
            /\ h_deleted' = IF out.status = 200 THEN h_deleted \cup {d}
                            ELSE h_deleted
            /\ h_request' = NoRequest
            /\ UNCHANGED <<embedding_models, next_uuid, h_uploaded, calls>>

\* ================================================================== restart
\* The process is restarted: the module-level registry and model cache are
\* empty again (main.py documents_store = {}, embed_store.py
\* _embedding_models = {}); the files stay.
Restart ==
    /\ documents_store # EmptyStore \/ embedding_models # {}
    /\ documents_store' = EmptyStore
    /\ embedding_models' = {}
    /\ resp' = Response("restart", NoId, 0, "")
    /\ h_request' = NoRequest
    /\ UNCHANGED <<fs, next_uuid, h_uploaded, h_deleted, calls>>

Next == Upload \/ Chat \/ List \/ Delete \/ Restart

Spec == Init /\ [][Next]_vars

\* ============================================================ chunk_text, stepped
\* One call of chunk_text(text, max_chunk_size, overlap_size) on any
\* arguments, one loop iteration per step.  The tokens of the text are
\* numbered 1..n, so a chunk shows which positions it covers.
Tokens(n) == [i \in 1..n |-> i]

CkCalls ==
    { [tokens |-> Tokens(n), max |-> m, over |-> o, start |-> 0,
       chunks |-> <<>>, pc |-> "loop"] :
      n \in 0..CkMaxLen, m \in 1..CkMaxWindow, o \in 0..CkMaxOverlap }

InitChunk ==
    /\ documents_store = EmptyStore
    /\ fs = NoFiles
    /\ embedding_models = {}
    /\ next_uuid = FirstId
    /\ resp = NoResponse
    /\ h_uploaded = EmptyStore
    /\ h_deleted = {}
    /\ h_request = NoRequest
    /\ ck \in CkCalls
    /\ rt = RtIdle
    /\ gn = GnIdle
    /\ em = EmIdle

\* `while start < len(tokens)` holds: the body runs once.  A call whose
\* stride is not positive is followed for CkMaxIter iterations.
ChunkStep ==
    /\ ck.pc = "loop"
    /\ ck.start < Len(ck.tokens)
    /\ Len(ck.chunks) < Max(CkMaxIter, Len(ck.tokens))
    /\ ck' = [ck EXCEPT
                !.chunks = Append(@, ChunkWindow(ck.tokens, ck.max, ck.start)),
                !.start = ChunkAdvance(ck.max, ck.over, ck.start)]
    /\ UNCHANGED <<service, rt, gn, em>>

\* `while start < len(tokens)` fails: `return chunks`.
ChunkReturn ==
    /\ ck.pc = "loop"
    /\ ~(ck.start < Len(ck.tokens))
    /\ ck' = [ck EXCEPT !.pc = "done"]
    /\ UNCHANGED <<service, rt, gn, em>>

NextChunk == ChunkStep \/ ChunkReturn

SpecChunk == InitChunk /\ [][NextChunk]_vars

\* ------------------------------------------------- claims on chunk_text
CeilDiv(a, b) == (a + b - 1) \div b

CkN == Len(ck.tokens)
CkStride == ck.max - ck.over
CkReturned == ck.pc = "done" /\ ck.max > ck.over
CkPositions(c) == {c[j] : j \in 1..Len(c)}
CkShared(i) ==
    Cardinality(CkPositions(ck.chunks[i]) \cap CkPositions(ck.chunks[i + 1]))

\* C7 as stated, for a text that has tokens: with maxTokens > overlapTokens
\* >= 0 a call on N tokens returns ceil((N - overlap) / (max - overlap))
\* chunks when N > overlap, and one chunk holding all tokens when
\* N <= overlap.  (Without tokens the loop does not run and no chunk is
\* returned, which is the case upload_pdf turns down.)
C7_ChunkCount ==
    (CkReturned /\ CkN >= 1) =>
        IF CkN > ck.over
        THEN Len(ck.chunks) = CeilDiv(CkN - ck.over, CkStride)
        ELSE ck.chunks = <<ck.tokens>>

\* What the code does (holds): one chunk per window start 0, stride,
\* 2*stride, ... below N, that is ceil(N / (max - overlap)) chunks; the
\* windows that start after an earlier window has reached the end of the
\* tokens are the ones C7 does not count.
C7_CodeChunkCount ==
    CkReturned => Len(ck.chunks) = CeilDiv(CkN, CkStride)

\* C8 as stated: every chunk has at most maxTokens tokens, chunk i starts
\* one stride after chunk i-1, every pair of consecutive chunks but the one
\* ending in the final chunk shares exactly overlapTokens tokens, and only
\* the final chunk may be shorter than maxTokens.
C8_SlidingWindows ==
    CkReturned =>
        LET n == Len(ck.chunks)
        IN  /\ \A i \in 1..n : Len(ck.chunks[i]) <= ck.max
            /\ \A i \in 1..n : ck.chunks[i][1] = (i - 1) * CkStride + 1
            /\ \A i \in 1..(n - 2) : CkShared(i) = ck.over
            /\ \A i \in 1..(n - 1) : Len(ck.chunks[i]) = ck.max

\* What the code does (holds): every chunk is a run of at most maxTokens
\* consecutive tokens, chunk i starts one stride after chunk i-1, a chunk
\* shorter than maxTokens ends at the end of the tokens (there may be several
\* such trailing chunks), and consecutive chunks share exactly overlapTokens
\* tokens when the earlier one is full, and the whole later chunk otherwise.
C8_CodeWindows ==
    CkReturned =>
        LET n == Len(ck.chunks)
        IN  /\ \A i \in 1..n :
                 LET c == ck.chunks[i]
                     first == (i - 1) * CkStride + 1
                 IN  /\ Len(c) >= 1 /\ Len(c) <= ck.max
                     /\ c = SubSeq(ck.tokens, first, first + Len(c) - 1)
                     /\ (Len(c) < ck.max => c[Len(c)] = CkN)
            /\ \A i \in 1..(n - 1) :
                 CkShared(i) = IF Len(ck.chunks[i]) = ck.max
                               THEN ck.over
                               ELSE Len(ck.chunks[i + 1])

\* C9 as stated: a call with overlapTokens >= maxTokens on a non-empty
\* token sequence is turned down with a configuration error: it does not
\* enter the loop, so it emits no chunk.
C9_ConfigError ==
    (ck.pc # "idle" /\ ck.over >= ck.max /\ ck.tokens # <<>>) =>
        ck.chunks = <<>>

\* What the code does instead (holds): such a call never returns, the loop
\* test stays true because start never passes the end of the tokens.
C9_NeverReturns ==
    (ck.pc # "idle" /\ ck.over >= ck.max /\ ck.tokens # <<>>) =>
        (ck.pc = "loop" /\ ck.start < Len(ck.tokens))

\* ================================================================ retrieve, alone
\* One call of retrieve on any index built the way upload_pdf builds it:
\* the rows are the embeddings of the chunks, in order.
RtTexts == { <<"a">>, <<"b">>, <<"a", "b">>, <<"b", "a", "a">> }
RtQueries == { <<"a">>, <<"b", "b">>, <<" ", "b">> }
RtModels == { <<>>, <<"a">>, <<"b">> }

RtChunkLists == UNION {[1..m -> RtTexts] : m \in 0..RtMaxRows}

RtBuild(chunks, model_name) ==
    IndexFlatIP([i \in 1..Len(chunks) |->
                    IF model_name = <<>> THEN Axis[1]
                    ELSE Encode(model_name, chunks[i])])

RtCalls ==
    { [RtIdle EXCEPT !.query = q, !.chunks = c, !.top_k = k,
                     !.embedding_model = m, !.index = RtBuild(c, m),
                     !.pc = "call"] :
      q \in RtQueries, c \in RtChunkLists, k \in 0..RtMaxK, m \in RtModels }

InitRetrieve ==
    /\ documents_store = EmptyStore
    /\ fs = NoFiles
    /\ embedding_models = {}
    /\ next_uuid = FirstId
    /\ resp = NoResponse
    /\ h_uploaded = EmptyStore
    /\ h_deleted = {}
    /\ h_request = NoRequest
    /\ ck = CkIdle
    /\ rt \in RtCalls
    /\ gn = GnIdle
    /\ em = EmIdle

RetrieveCall ==
    /\ rt.pc = "call"
    /\ LET r == retrieve(embedding_models, rt.query, rt.index, rt.chunks,
                         rt.top_k, rt.embedding_model, FALSE)
       IN  /\ rt' = [rt EXCEPT !.labels = r.labels, !.out = r.chunks,
                               !.err = r.err, !.pc = "done"]
           /\ embedding_models' = r.cache
    /\ UNCHANGED <<documents_store, fs, next_uuid, resp, h_uploaded, h_deleted,
                   h_request, ck, gn, em>>

NextRetrieve == RetrieveCall

SpecRetrieve == InitRetrieve /\ [][NextRetrieve]_vars

\* ---------------------------------------------------- claims on retrieve
RtN == Len(rt.chunks)
RtReturned == rt.pc = "done" /\ rt.top_k >= 1 /\ rt.embedding_model # <<>>
RtScore(row) ==
    Dot(rt.index.xb[row + 1], Encode(rt.embedding_model, rt.query))
RtHits == Min(rt.top_k, RtN)

\* C6: for an index over n chunks and k >= 1, retrieve returns exactly
\* min(k, n) chunk texts: the chunks at the rows the search matched, distinct
\* rows in order of non-increasing inner product with the query vector, no
\* unmatched row scoring higher than a matched one; the sentinel rows (-1)
\* that pad the labels are mapped to no chunk.
C6_Retrieve ==
    RtReturned =>
        /\ rt.err = ""
        /\ Len(rt.out) = RtHits
        /\ Len(rt.labels) = rt.top_k
        /\ \A j \in 1..RtHits :
              /\ rt.labels[j] \in 0..(RtN - 1)
              /\ rt.out[j] = rt.chunks[rt.labels[j] + 1]
        /\ \A i, j \in 1..RtHits : i # j => rt.labels[i] # rt.labels[j]
        /\ \A j \in 1..(RtHits - 1) :
              RtScore(rt.labels[j]) >= RtScore(rt.labels[j + 1])
        /\ \A j \in 1..RtHits : \A row \in 0..(RtN - 1) :
              (\A i \in 1..RtHits : rt.labels[i] # row) =>
                  RtScore(row) <= RtScore(rt.labels[j])
        /\ \A j \in (RtHits + 1)..rt.top_k : rt.labels[j] = NO_MATCH

\* C6 witness: a call with more rows asked for than the index holds, whose
\* labels are padded with the sentinel, and whose hits differ in score.
C6_Witness ==
    /\ RtReturned
    /\ rt.top_k > RtN
    /\ RtN >= 2
    /\ rt.labels[rt.top_k] = NO_MATCH
    /\ Len(rt.out) = RtN
    /\ RtScore(rt.labels[1]) > RtScore(rt.labels[RtN])

\* ======================================================= generate_answer, stepped
\* One call of generate_answer on any arguments: the checks, then the try
\* block with the remote completion call.
GnOutcomes ==
    { [fails |-> FALSE, text |-> <<" ", "o", "k", " ">>],
      [fails |-> TRUE, text |-> <<"R", "a", "t", "e", " ", "L", "i", "m", "i", "t">>],
      [fails |-> TRUE, text |-> <<"m", "o", "d", "e", "l", " ", "r", "a", "t", "e", " ", "l", "i", "m", "i", "t">>],
      [fails |-> TRUE, text |-> <<"M", "O", "D", "E", "L", " ", "R", "A", "T", "E", " ", "l", "i", "m", "i", "t">>],
      [fails |-> TRUE, text |-> <<"A", " ", "M", "o", "d", "e", "l">>],
      [fails |-> TRUE, text |-> <<"t", "i", "m", "e", "o", "u", "t">>],
      [fails |-> TRUE, text |-> <<"r", "a", "t", "e">>],
      [fails |-> TRUE, text |-> <<>>],
      [fails |-> TRUE, text |-> <<"r", "a", "t", "e", "-", "l", "i", "m", "i", "t">>] }

GnProviders == {"", "azure", "huggingface", "openai"}
GnModels == { <<>>, <<" ">>, <<"g">> }
GnKeys == { <<>>, <<"k">> }

GnCalls ==
    { [GnIdle EXCEPT !.provider = p, !.llm_model = m, !.api_key = a,
                     !.remote = r, !.pc = "check"] :
      p \in GnProviders, m \in GnModels, a \in GnKeys, r \in GnOutcomes }

InitGenerate ==
    /\ documents_store = EmptyStore
    /\ fs = NoFiles
    /\ embedding_models = {}
    /\ next_uuid = FirstId
    /\ resp = NoResponse
    /\ h_uploaded = EmptyStore
    /\ h_deleted = {}
    /\ h_request = NoRequest
    /\ ck = CkIdle
    /\ rt = RtIdle
    /\ gn \in GnCalls
    /\ em = EmIdle

\* rag_answer.py lines 18-23: a ValueError is raised, or the try block is entered.
GenerateEnter ==
    /\ gn.pc = "check"
    /\ LET checked == GenerateCheck(gn.provider, gn.llm_model, gn.api_key)
       IN  gn' = IF checked.kind # "pass"
                 THEN [gn EXCEPT !.out = checked, !.pc = "done"]
                 ELSE [gn EXCEPT !.pc = "try"]
    /\ UNCHANGED <<service, ck, rt, em>>

\* rag_answer.py lines 29-39: the provider is called; its text is returned
\* or its failure is classified and raised.
GenerateRemote ==
    /\ gn.pc = "try"
    /\ gn' = [gn EXCEPT !.called = TRUE, !.out = GenerateTry(gn.remote),
                        !.pc = "done"]
    /\ UNCHANGED <<service, ck, rt, em>>

NextGenerate == GenerateEnter \/ GenerateRemote

SpecGenerate == InitGenerate /\ [][NextGenerate]_vars

\* ------------------------------------------------ claims on generate_answer
\* c is the letter l in either case.
CasePairs == { <<"a", "A">>, <<"d", "D">>, <<"e", "E">>, <<"i", "I">>,
               <<"l", "L">>, <<"m", "M">>, <<"o", "O">>, <<"r", "R">>,
               <<"t", "T">> }
SameLetter(c, l) == c = l \/ <<l, c>> \in CasePairs

\* The text e contains the lower-case word w, in any mix of cases.
HasWord(e, w) ==
    \E i \in 0..(Len(e) - Len(w)) :
        \A j \in 1..Len(w) : SameLetter(e[i + j], w[j])

\* The remote completion call was made and failed.
GnRemoteFailed == gn.pc = "done" /\ gn.called /\ gn.remote.fails

\* C13: when the remote call fails with text e, generate_answer raises the
\* rate-limited error if e contains "rate limit" in any case (also when it
\* contains "model" too); otherwise the model error carrying e if e
\* contains "model" in any case; otherwise the generic failure carrying e.
C13_Classification ==
    GnRemoteFailed =>
        LET e == gn.remote.text
        IN  /\ gn.out.kind = "Exception"
            /\ IF HasWord(e, RATE_LIMIT)
               THEN /\ gn.out.msg = "Rate limit exceeded. Try again later."
                    /\ gn.out.arg = <<>>
               ELSE IF HasWord(e, MODEL)
               THEN gn.out.msg = "Model error: {e}" /\ gn.out.arg = e
               ELSE gn.out.msg = "Failed to generate answer: {e}" /\ gn.out.arg = e

\* C13 witness: a failure text with "model" before "rate limit", neither in
\* lower case throughout, was classified as rate-limited.
C13_Witness ==
    /\ GnRemoteFailed
    /\ HasWord(gn.remote.text, MODEL) /\ ~Contains(gn.remote.text, MODEL)
    /\ HasWord(gn.remote.text, RATE_LIMIT) /\ ~Contains(gn.remote.text, RATE_LIMIT)
    /\ gn.out.msg = "Rate limit exceeded. Try again later."

\* ================================================== embed_texts, by threads
\* embed_texts called from EmCallers threads, each at most EmMaxCalls times.
\* get_embedding_model takes no lock, so the threads interleave between its
\* statements: the test of line 13, the load and the store of line 14 and
\* the read of line 16.  (The handlers of main.py are coroutines that never
\* await, so the service itself makes these calls one at a time; the
\* states with em.overlap are those of callers on more than one thread.)
InitEmbed ==
    /\ documents_store = EmptyStore
    /\ fs = NoFiles
    /\ embedding_models = {}
    /\ next_uuid = FirstId
    /\ resp = NoResponse
    /\ h_uploaded = EmptyStore
    /\ h_deleted = {}
    /\ h_request = NoRequest
    /\ ck = CkIdle
    /\ rt = RtIdle
    /\ gn = GnIdle
    /\ em = EmIdle

\* embed_texts(texts, model_name) is called: an empty name raises ValueError
\* (embed_store.py lines 21-22), any other goes on to get_embedding_model.
EmbedCall(c) ==
    /\ em.pc[c] = "idle"
    /\ em.calls[c] < EmMaxCalls
    /\ \E m \in EmModels :
          em' = [em EXCEPT
                   !.arg[c] = m,
                   !.calls[c] = @ + 1,
                   !.model[c] = 0,
                   !.got[c] = 0,
                   !.err[c] = IF m = <<>> THEN "ValueError" ELSE "",
                   !.pc[c] = IF m = <<>> THEN "idle" ELSE "test",
                   !.overlap = @ \/ (m # <<>> /\ \E o \in EmThreads \ {c} :
                                                    em.pc[o] # "idle")]
    /\ UNCHANGED <<service, ck, rt, gn>>

\* line 13: `if model_name not in _embedding_models`
EmbedTest(c) ==
    /\ em.pc[c] = "test"
    /\ em' = [em EXCEPT !.pc[c] = IF em.cache[em.arg[c]] = 0 THEN "load"
                                  ELSE "fetch"]
    /\ UNCHANGED <<service, ck, rt, gn>>

\* line 14, right-hand side: SentenceTransformer(model_name) builds a model.
EmbedLoad(c) ==
    /\ em.pc[c] = "load"
    /\ em' = [em EXCEPT !.loads[em.arg[c]] = @ + 1,
                        !.model[c] = em.loads[em.arg[c]] + 1,
                        !.pc[c] = "store"]
    /\ UNCHANGED <<service, ck, rt, gn>>

\* line 14, right-hand side: SentenceTransformer(model_name) raises.
EmbedLoadFails(c) ==
    /\ em.pc[c] = "load"
    /\ em' = [em EXCEPT !.err[c] = "LoadError", !.pc[c] = "idle"]
    /\ UNCHANGED <<service, ck, rt, gn>>

\* line 14, assignment: _embedding_models[model_name] = the model built.
EmbedStore(c) ==
    /\ em.pc[c] = "store"
    /\ em' = [em EXCEPT !.cache[em.arg[c]] = em.model[c], !.pc[c] = "fetch"]
    /\ UNCHANGED <<service, ck, rt, gn>>

\* line 16: `return _embedding_models[model_name]`, which embed_texts uses.
EmbedFetch(c) ==
    /\ em.pc[c] = "fetch"
    /\ em' = [em EXCEPT !.got[c] = em.cache[em.arg[c]], !.pc[c] = "idle"]
    /\ UNCHANGED <<service, ck, rt, gn>>

NextEmbed ==
    \E c \in EmThreads :
        \/ EmbedCall(c)
        \/ EmbedTest(c)
        \/ EmbedLoad(c)
        \/ EmbedLoadFails(c)
        \/ EmbedStore(c)
        \/ EmbedFetch(c)

SpecEmbed == InitEmbed /\ [][NextEmbed]_vars

\* ---------------------------------------------------- claims on embed_texts
\* An empty model name fails with ValueError and nothing is cached for it.
EmEmptyNameFails ==
    /\ em.cache[<<>>] = 0 /\ em.loads[<<>>] = 0
    /\ \A c \in EmThreads :
          (em.calls[c] > 0 /\ em.arg[c] = <<>>) =>
             (em.err[c] = "ValueError" /\ em.got[c] = 0 /\ em.pc[c] = "idle")

\* C16 as stated: over any interleaving of embed calls a model name is
\* loaded at most once, every caller gets the instance of that one load, and
\* an empty name fails with a configuration error and caches nothing.
C16_LoadedOnce ==
    /\ \A m \in EmModels : em.loads[m] <= 1
    /\ \A c \in EmThreads : em.got[c] <= 1 /\ em.model[c] <= 1
    /\ EmEmptyNameFails

\* What the code does (holds): calls made one at a time load a name at most
\* once; two threads that both find a name missing both load it, and the
\* second store replaces the first instance in the cache.  The empty name
\* always fails and caches nothing.
C16_CodeLoadedOnceInSequence ==
    /\ ~em.overlap =>
          /\ \A m \in EmModels : em.loads[m] <= 1
          /\ \A c \in EmThreads : em.got[c] <= 1 /\ em.model[c] <= 1
    /\ \A m \in EmModels : em.loads[m] <= EmCallers * EmMaxCalls
    /\ EmEmptyNameFails

\* ================================================= claims on the service (Spec)
\* The last request was an upload that failed after its file was saved.
UploadFailedAfterSave ==
    /\ resp.op = "upload"
    /\ resp.status # 200
    /\ resp.id # NoId
    /\ resp.detail # "Failed to save file: {e}"

\* None of d's files exists and the registry has no entry for d.
NonExistent(d) ==
    /\ ~Exists(fs, file_path(d))
    /\ ~Exists(fs, index_path(d))
    /\ ~Exists(fs, meta_path(d))
    /\ d \notin DOMAIN documents_store

\* C1 as stated: when an upload fails after the incoming file was saved, the
\* saved file is gone when the error is returned and the registry has no
\* entry for the document id.
C1_FailedUploadCleansUp ==
    UploadFailedAfterSave =>
        /\ ~Exists(fs, file_path(resp.id))
        /\ resp.id \notin DOMAIN documents_store

\* What the code does (holds): the saved file is removed when the failure is
\* an exception other than HTTPException, and no failed upload registers.
C1_CleanupOnExceptionOnly ==
    UploadFailedAfterSave =>
        /\ resp.id \notin DOMAIN documents_store
        /\ (resp.status = 500 => ~Exists(fs, file_path(resp.id)))
        /\ (resp.status = 400 => Exists(fs, file_path(resp.id)))

\* C2 as stated: once a delete of d has reported success, d is NonExistent:
\* none of its files remains and the registry has no entry for it (so no
\* later chat finds it), also when the deleted entry came from a reload.
C2_DeletedIsGone ==
    \A d \in h_deleted : NonExistent(d)

\* Documents whose upload succeeded and whose delete has not.
Live == (DOMAIN h_uploaded) \ h_deleted

\* The failures of the lookup of chat.
LookupFailures ==
    { "Document not found", "Failed to load document: {e}",
      "Document missing embedding_model. Re-upload required." }

\* C3: once the upload of d has succeeded, and until a delete of d succeeds,
\* every chat on d with valid inputs finds the document: it reports neither
\* not-found nor a load failure and leaves d resident, whatever evictions,
\* chats, lists, uploads and deletes of other documents came before; in
\* every such state d is resident or both its persisted artifacts are intact.
C3_UploadedIsQueryable ==
    /\ \A d \in Live :
          \/ d \in DOMAIN documents_store
          \/ /\ fs[index_path(d)].kind = "index"
             /\ fs[meta_path(d)].kind = "json"
             /\ "embedding_model" \in DOMAIN fs[meta_path(d)].json
             /\ fs[meta_path(d)].json.embedding_model # <<>>
    /\ (resp.op = "chat" /\ resp.status # 400 /\ resp.id \in Live) =>
          /\ resp.detail \notin LookupFailures
          /\ resp.id \in DOMAIN documents_store

\* C3 witness: a chat answered from an entry that was reloaded after an
\* eviction, on a live document, after another document was deleted.
C3_Witness ==
    /\ resp.op = "chat" /\ resp.status = 200
    /\ resp.id \in Live
    /\ "filename" \notin DOMAIN documents_store[resp.id]
    /\ h_deleted # {}

\* t is raw without its leading and trailing white space.
IsStripOf(t, raw) ==
    /\ t # <<>> => (~IsSpace(t[1]) /\ ~IsSpace(t[Len(t)]))
    /\ \E i \in 0..Len(raw) :
          /\ i + Len(t) <= Len(raw)
          /\ SubSeq(raw, i + 1, i + Len(t)) = t
          /\ \A j \in (1..i) \cup ((i + Len(t) + 1)..Len(raw)) : IsSpace(raw[j])

\* The last request was a chat that got as far as retrieval.
ChatRetrieved ==
    /\ resp.op = "chat"
    /\ resp.detail \in {"", "No relevant content found",
                        "Failed to generate response: {e}"}

\* C4: a chat on an uploaded document embeds the query with the stripped
\* model id of the upload (resp.model is the model handed to retrieve), and
\* the model id recorded for the document in the registry and in the
\* persisted metadata is that id in every state.
C4_ModelIdKept ==
    /\ \A d \in DOMAIN h_uploaded :
          /\ d \in DOMAIN documents_store =>
                IsStripOf(documents_store[d].embedding_model, h_uploaded[d])
          /\ fs[meta_path(d)].kind = "json" =>
                IsStripOf(fs[meta_path(d)].json.embedding_model, h_uploaded[d])
    /\ (ChatRetrieved /\ resp.id \in DOMAIN h_uploaded) =>
          /\ resp.model # <<>>
          /\ IsStripOf(resp.model, h_uploaded[resp.id])

\* C4 witness: a chat retrieved on a reloaded document whose model id was
\* uploaded with white space around it.
C4_Witness ==
    /\ ChatRetrieved
    /\ resp.id \in DOMAIN h_uploaded
    /\ "filename" \notin DOMAIN documents_store[resp.id]
    /\ h_uploaded[resp.id] # resp.model

\* C5: for every resident document the chunk list equals the chunk array of
\* its persisted metadata, the index equals the persisted index, and row i
\* of the index is the embedding of chunk i under the document's model.
C5_ChunksAligned ==
    \A d \in DOMAIN documents_store :
        LET doc == documents_store[d]
        IN  /\ fs[meta_path(d)].kind = "json"
            /\ "chunks" \in DOMAIN fs[meta_path(d)].json
            /\ doc.chunks = fs[meta_path(d)].json.chunks
            /\ fs[index_path(d)].kind = "index"
            /\ doc.index = fs[index_path(d)].index
            /\ Len(doc.index.xb) = Len(doc.chunks)
            /\ \A i \in 1..Len(doc.chunks) :
                  doc.index.xb[i] = Encode(doc.embedding_model, doc.chunks[i])

\* C5 witness: an uploaded entry and a reloaded entry are resident together,
\* each with more than one chunk.
C5_Witness ==
    \E d, e \in DOMAIN documents_store :
        /\ "filename" \in DOMAIN documents_store[d]
        /\ "filename" \notin DOMAIN documents_store[e]
        /\ Len(documents_store[d].chunks) >= 2
        /\ Len(documents_store[e].chunks) >= 2

\* The step is a chat with valid inputs on d, and d was not resident.
ChatOnAbsent(d) ==
    /\ resp'.op = "chat" /\ resp'.id = d /\ resp'.status # 400
    /\ d \notin DOMAIN documents_store

\* C10: a chat on an id that is not in the registry reloads it: with the
\* index artifact or the metadata record missing it reports not-found and
\* the registry is unchanged; with both there and a non-empty model id in
\* the metadata the registry gains exactly one entry, for that id, holding
\* the persisted chunk array, the persisted index and that model id; with
\* no (or an empty) model id the chat fails and the registry is unchanged.
C10_Reload ==
    [][\A d \in DocIds :
         ChatOnAbsent(d) =>
            LET index_file == fs[index_path(d)]
                meta_file == fs[meta_path(d)]
            IN  IF index_file.kind = "absent" \/ meta_file.kind = "absent"
                THEN /\ resp'.status = 404
                     /\ resp'.detail = "Document not found"
                     /\ documents_store' = documents_store
                ELSE IF /\ index_file.kind = "index"
                        /\ meta_file.kind = "json"
                        /\ "embedding_model" \in DOMAIN meta_file.json
                        /\ meta_file.json.embedding_model # <<>>
                THEN /\ resp'.detail \notin LookupFailures
                     /\ DOMAIN documents_store' = DOMAIN documents_store \cup {d}
                     /\ \A o \in DOMAIN documents_store :
                           documents_store'[o] = documents_store[o]
                     /\ documents_store'[d].chunks = meta_file.json.chunks
                     /\ documents_store'[d].index = index_file.index
                     /\ documents_store'[d].embedding_model =
                           meta_file.json.embedding_model
                ELSE /\ resp'.status = 500
                     /\ resp'.detail \in LookupFailures
                     /\ documents_store' = documents_store
      ]_vars

\* C10 witness: a chat has failed on persisted metadata that holds no model
\* id, and the id is not resident.
C10_Witness ==
    /\ resp.op = "chat"
    /\ resp.detail = "Document missing embedding_model. Re-upload required."
    /\ resp.id \notin DOMAIN documents_store
    /\ fs[meta_path(resp.id)].kind = "json"
    /\ fs[index_path(resp.id)].kind = "index"

\* The step is a list request.
ListStep == resp'.op = "list"

\* d is persisted (index artifact and metadata record) and not resident.
PersistedOnly(d) ==
    /\ d \notin DOMAIN documents_store
    /\ Exists(fs, index_path(d))
    /\ Exists(fs, meta_path(d))

\* C11: a list request returns exactly one record per id in the registry,
\* carrying that entry's chunk count and embedding-model id, and no record
\* for any other id (a persisted document that is not resident is not
\* listed); it changes neither the registry nor the files; and a persisted
\* document that is not resident becomes resident (and so listed) only by a
\* chat on it.
C11_List ==
    [][/\ ListStep =>
            /\ documents_store' = documents_store
            /\ fs' = fs
            /\ resp'.status = 200
            /\ Cardinality(resp'.docs) = Cardinality(DOMAIN documents_store)
            /\ \A r \in resp'.docs : r.document_id \in DOMAIN documents_store
            /\ \A d \in DOMAIN documents_store :
                  \E r \in resp'.docs :
                     /\ r.document_id = d
                     /\ r.num_chunks = Len(documents_store[d].chunks)
                     /\ r.embedding_model = documents_store[d].embedding_model
       /\ \A d \in DocIds :
             (PersistedOnly(d) /\ d \in DOMAIN documents_store') =>
                (resp'.op = "chat" /\ resp'.id = d)
      ]_vars

\* C11 witness: a list answered while one document is persisted and not
\* resident and another, reloaded by a chat, is resident and listed.
C11_Witness ==
    /\ resp.op = "list"
    /\ \E d \in Live : PersistedOnly(d)
    /\ \E r \in resp.docs :
          /\ r.document_id \in DOMAIN documents_store
          /\ "filename" \notin DOMAIN documents_store[r.document_id]
          /\ r.num_chunks >= 2

\* The step is a delete of d.
DeleteStep(d) == resp'.op = "delete" /\ resp'.id = d

\* The persisted artifacts of d.
Artifacts(d) == {file_path(d), index_path(d), meta_path(d)}

\* C12 as stated: a delete of a resident d succeeds whichever of d's
\* artifacts exist, leaves none of them behind, touches no other file and
\* removes exactly d's registry entry; a delete of d directly after a
\* successful delete of d reports not-found and changes neither the
\* registry nor the files.
C12_Delete ==
    [][\A d \in DocIds :
         DeleteStep(d) =>
            IF d \in DOMAIN documents_store
            THEN /\ resp'.status = 200
                 /\ \A p \in Artifacts(d) : ~Exists(fs', p)
                 /\ \A p \in Paths \ Artifacts(d) : fs'[p] = fs[p]
                 /\ documents_store' = StoreWithout(documents_store, d)
            ELSE /\ resp'.status = 404
                 /\ resp'.detail = "Document not found"
                 /\ documents_store' = documents_store
                 /\ fs' = fs
      ]_vars

\* What the code does (holds): the artifacts removed are those the registry
\* entry names (an entry registered by a reload names none, so all of d's
\* artifacts stay); a missing artifact is no error; the entry is removed;
\* and the next delete of d reports not-found and changes nothing.
C12_CodeDelete ==
    [][/\ \A d \in DocIds :
            DeleteStep(d) =>
               IF d \in DOMAIN documents_store
               THEN /\ resp'.status = 200
                    /\ \A p \in Paths :
                          fs'[p] = IF /\ p \in Artifacts(d)
                                      /\ "filename" \in DOMAIN documents_store[d]
                                   THEN Absent ELSE fs[p]
                    /\ documents_store' = StoreWithout(documents_store, d)
               ELSE /\ resp'.status = 404
                    /\ resp'.detail = "Document not found"
                    /\ documents_store' = documents_store
                    /\ fs' = fs
       /\ \A e \in DocIds :
            (resp.op = "delete" /\ resp.id = e /\ resp.status = 200) =>
               e \notin DOMAIN documents_store
      ]_vars

\* ============================== the service, or generate_answer called alone
\* Either the service runs from its start-up state, or generate_answer is
\* called once on any arguments: the two systems side by side.
InitGenerateChat == Init \/ InitGenerate

\* The service is the system that runs: generate_answer is not called alone.
Serving == gn.pc = "idle"

NextGenerateChat ==
    \/ Serving /\ Upload
    \/ Serving /\ Chat
    \/ Serving /\ List
    \/ Serving /\ Delete
    \/ Serving /\ Restart
    \/ GenerateEnter
    \/ GenerateRemote

SpecGenerateChat == InitGenerateChat /\ [][NextGenerateChat]_vars

\* The provider tag is not supported, or the LLM model id or the API key is empty.
BadConfig(provider, llm_model, api_key) ==
    \/ provider \notin {"huggingface", "openai"}
    \/ llm_model = <<>>
    \/ api_key = <<>>

\* The messages of the errors the remote-failure classification raises.
ClassifiedMessages ==
    { "Rate limit exceeded. Try again later.", "Model error: {e}",
      "Failed to generate answer: {e}" }

\* generate_answer, called with a bad configuration: the remote call is
\* never made and the call ends in a ValueError that is none of the
\* classified remote failures.
GnConfigError ==
    (gn.pc # "idle" /\ BadConfig(gn.provider, gn.llm_model, gn.api_key)) =>
        /\ ~gn.called
        /\ gn.pc \in {"check", "done"}
        /\ gn.pc = "done" =>
              /\ gn.out.kind = "ValueError"
              /\ gn.out.msg \notin ClassifiedMessages

\* A chat step whose request has a bad configuration is answered with 400
\* and leaves the registry, the files and the model cache as they were.
ChatConfigError ==
    (/\ resp'.op = "chat"
     /\ BadConfig(h_request'.provider, h_request'.llm_model, h_request'.api_key)) =>
        /\ resp'.status = 400
        /\ resp'.detail \in {"Query cannot be empty",
                              "Provider must be 'huggingface' or 'openai'",
                              "LLM model is required", "API key is required"}
        /\ documents_store' = documents_store
        /\ fs' = fs
        /\ embedding_models' = embedding_models

\* C14: with an unsupported provider tag, an empty LLM model id or an empty
\* API key, generate_answer fails with a configuration error, makes no
\* remote completion call and does not classify the error as a remote
\* failure; a chat with such a request is rejected before the registry is
\* looked up or the document reloaded, so registry and files are unchanged.
C14_ConfigError == [](GnConfigError) /\ [][ChatConfigError]_vars

\* C14 witness: a chat with an empty API key was rejected on a document that
\* is persisted and not resident, which a lookup would have reloaded.
C14_Witness ==
    /\ resp.op = "chat" /\ resp.status = 400
    /\ h_request.api_key = <<>>
    /\ resp.id \in Live
    /\ PersistedOnly(resp.id)
    /\ ChatLookup(fs, documents_store, resp.id).status = 200

\* C15 as stated: no failed upload leaves an artifact behind, so in every
\* state the index artifact of an id exists if and only if its metadata
\* record exists.
C15_NoOrphan ==
    \A d \in DocIds : Exists(fs, index_path(d)) <=> Exists(fs, meta_path(d))

\* What the code does (holds): a failed upload removes at most the saved
\* upload file; an index artifact written before the failure stays, with
\* no metadata record or an unreadable one beside it, and the id is not
\* registered.
C15_CodeLeavesIndex ==
    [][(resp'.op = "upload" /\ resp'.status # 200 /\ resp'.id # NoId) =>
          /\ documents_store' = documents_store
          /\ ~Exists(fs, index_path(resp'.id))
          /\ \A p \in Paths \ Artifacts(resp'.id) : fs'[p] = fs[p]
          /\ fs'[meta_path(resp'.id)].kind \in {"absent", "corrupt"}
          /\ fs'[index_path(resp'.id)].kind \in {"absent", "corrupt", "index"}
          /\ (resp'.status = 500 /\ resp'.detail = "Failed to process PDF: {e}") =>
                ~Exists(fs', file_path(resp'.id))
      ]_vars

\* The registry entries a and b have the same fields with the same values.
SameEntry(a, b) ==
    /\ DOMAIN a = DOMAIN b
    /\ \A k \in DOMAIN a : a[k] = b[k]

\* The ids that enter the registry in the step.
Registered == (DOMAIN documents_store') \ (DOMAIN documents_store)

\* C17: a chat or list step changes no file, removes no registry entry and
\* changes no field (chunk list, index, embedding-model id or any other) of
\* an entry that is there; a list step registers nothing; a chat step
\* registers at most the requested id, and then with the chunk list, index
\* and model id that are persisted for it.
C17_NeverMutated ==
    [][resp'.op \in {"chat", "list"} =>
          /\ fs' = fs
          /\ \A o \in DOMAIN documents_store :
                /\ o \in DOMAIN documents_store'
                /\ SameEntry(documents_store'[o], documents_store[o])
          /\ Registered \subseteq (IF resp'.op = "chat" THEN {resp'.id} ELSE {})
          /\ \A d \in Registered :
                /\ fs[index_path(d)].kind = "index"
                /\ fs[meta_path(d)].kind = "json"
                /\ documents_store'[d].chunks = fs[meta_path(d)].json.chunks
                /\ documents_store'[d].index = fs[index_path(d)].index
                /\ documents_store'[d].embedding_model =
                      fs[meta_path(d)].json.embedding_model
      ]_vars

\* C17 witness: a chat has reloaded its document while another document,
\* registered by its upload, was resident; both are resident now.
C17_Witness ==
    /\ resp.op = "chat" /\ resp.status = 200
    /\ resp.id \in DOMAIN documents_store
    /\ "filename" \notin DOMAIN documents_store[resp.id]
    /\ \E o \in DOMAIN documents_store :
          /\ o # resp.id
          /\ "filename" \in DOMAIN documents_store[o]
          /\ Exists(fs, file_path(o))

\* C18: a delete of an id that is not in the registry reports not-found and
\* changes neither the files nor the registry, also when the id's index
\* artifact, metadata record and upload file are on disk; a document that a
\* chat could reload before such a delete can be reloaded after it.
C18_DeleteNotResident ==
    [][\A d \in DocIds :
         (DeleteStep(d) /\ d \notin DOMAIN documents_store) =>
            /\ resp'.status = 404
            /\ resp'.detail = "Document not found"
            /\ fs' = fs
            /\ documents_store' = documents_store
            /\ ChatLookup(fs, documents_store, d).status = 200 =>
                  /\ ChatLookup(fs', documents_store', d).status = 200
                  /\ d \in DOMAIN ChatLookup(fs', documents_store', d).store
      ]_vars

\* C18 witness: a delete has reported not-found on an uploaded document that
\* is not resident and whose three artifacts are on disk.
C18_Witness ==
    /\ resp.op = "delete" /\ resp.status = 404
    /\ resp.id \in DOMAIN h_uploaded
    /\ resp.id \notin DOMAIN documents_store
    /\ \A p \in Artifacts(resp.id) : Exists(fs, p)
    /\ ChatLookup(fs, documents_store, resp.id).status = 200

====
